---- MODULE Spec2Model ----
(***************************************************************************)
(* Model of octoprint_multicam/__init__.py (class MultiCamPlugin).         *)
(*                                                                         *)
(* State: the persisted multicam_profiles list, the host's legacy          *)
(* webcam.* settings, the record of the last on_settings_migrate call,     *)
(* the record of the last get_webcam_configurations call and, per caller   *)
(* of take_webcam_snapshot, its position in the handler.                   *)
(*                                                                         *)
(* Python values are modelled as strings: "None" is None, "True"/"False"   *)
(* the booleans and "MISSING" marks a key that a profile dict does not     *)
(* hold.  The module only runs under Python 3 (line 140 is an f-string),   *)
(* so ordering comparisons with None raise TypeError.                      *)
(***************************************************************************)
EXTENDS Integers, Sequences, FiniteSets, TLC

VARIABLES store, legacy, mig, cfg, pc, arg, err

vars == <<store, legacy, mig, cfg, pc, arg, err>>

\* ---------------------------------------------------------------- bounds
MaxProfiles == 2
NumCallers == 2
MaxVersion == 4

\* ------------------------------------------------------- Python values
None == "None"
Missing == "MISSING"

\* Python truthiness of the values a profile field can hold
Falsy(v) == v \in {None, "False", "", Missing}

\* dict.get(key, None): a missing key reads as None
DictGet(d, k) == IF d[k] = Missing THEN None ELSE d[k]

\* `x or default`
OrDefault(x, d) == IF Falsy(x) THEN d ELSE x

\* ------------------------------------------------- settings and profiles
\* the value current=None of on_settings_migrate (never migrated)
NoVersion == -1

Versions == {NoVersion} \cup (0..MaxVersion)

\* host's legacy single-camera settings, octoprint.settings.settings()
LegacySettings ==
  { [stream |-> "http://h/stream", snapshot |-> "http://h/snap",
     streamRatio |-> "16:9", flipH |-> "False", flipV |-> "True",
     rotate90 |-> "False"],
    [stream |-> "http://h/stream", snapshot |-> None,
     streamRatio |-> "4:3", flipH |-> "True", flipV |-> "False",
     rotate90 |-> "True"] }

\* profile dicts a user may have stored under multicam_profiles
StoredProfiles ==
  { [name |-> "Cam1", URL |-> "http://x/stream", snapshot |-> "http://x/snap.jpg",
     streamRatio |-> Missing, flipH |-> Missing, flipV |-> Missing,
     rotate90 |-> Missing, isButtonEnabled |-> "true"],
    [name |-> "Cam2", URL |-> "http://y/stream", snapshot |-> "http://",
     streamRatio |-> "16:9", flipH |-> "True", flipV |-> "False",
     rotate90 |-> "True", isButtonEnabled |-> "true"],
    [name |-> "", URL |-> Missing, snapshot |-> "",
     streamRatio |-> "", flipH |-> None, flipV |-> "False",
     rotate90 |-> Missing, isButtonEnabled |-> "true"],
    [name |-> "Cam4", URL |-> "", snapshot |-> Missing,
     streamRatio |-> "4:3", flipH |-> "False", flipV |-> "True",
     rotate90 |-> "False", isButtonEnabled |-> "true"] }

ProfileLists == UNION { [1..n -> StoredProfiles] : n \in 0..MaxProfiles }

get_settings_version == 3

get_settings_defaults(l) ==
  << [name |-> "Default", URL |-> l.stream, snapshot |-> l.snapshot,
      streamRatio |-> l.streamRatio, flipH |-> l.flipH, flipV |-> l.flipV,
      rotate90 |-> l.rotate90, isButtonEnabled |-> "true"] >>

\* ------------------------------------------------- on_settings_migrate
\* a step's guard written `current <= n`
LessThanOrEqual(current, n) ==
  IF current = NoVersion THEN [err |-> "TypeError", value |-> FALSE]
  ELSE [err |-> "none", value |-> current <= n]

\* `current < n` in Python 3: TypeError when current is None
LessThan(current, n) ==
  IF current = NoVersion THEN [err |-> "TypeError", value |-> FALSE]
  ELSE [err |-> "none", value |-> current < n]

\* the outer guard written `current <= self.get_settings_version()`
MigrationNeededUpToTarget(current) ==
  current = NoVersion \/ current <= get_settings_version

\* outer guard: current is None or current < self.get_settings_version()
MigrationNeeded(current) ==
  current = NoVersion \/ current < get_settings_version

\* lines 44-48
MigrateTo2(profiles, l) ==
  [i \in 1..Len(profiles) |->
     [profiles[i] EXCEPT !.snapshot = l.snapshot, !.flipH = l.flipH,
                         !.flipV = l.flipV, !.rotate90 = l.rotate90]]

\* lines 51-52
MigrateTo3(profiles, l) ==
  [i \in 1..Len(profiles) |-> [profiles[i] EXCEPT !.streamRatio = l.streamRatio]]

\* the whole handler: the error it ends in, whether it called
\* self._settings.set(['multicam_profiles'], ...) and the stored list after it
migrate_result(current, profiles, l) ==
  IF ~MigrationNeeded(current)
    THEN [err |-> "none", wrote |-> FALSE, profiles |-> profiles]
  ELSE IF LessThan(current, 2).err # "none"
    THEN [err |-> LessThan(current, 2).err, wrote |-> FALSE, profiles |-> profiles]
  ELSE LET p2 == IF LessThan(current, 2).value THEN MigrateTo2(profiles, l)
                 ELSE profiles
           p3 == IF LessThan(current, 3).value THEN MigrateTo3(p2, l) ELSE p2
       IN  IF get_settings_version = 3
             THEN [err |-> "none", wrote |-> TRUE, profiles |-> p3]
             ELSE [err |-> "none", wrote |-> TRUE,
                   profiles |-> get_settings_defaults(l)]

NoMigration ==
  [called |-> FALSE, current |-> 0, err |-> "none", wrote |-> FALSE, before |-> <<>>]

on_settings_migrate(current) ==
  LET r == migrate_result(current, store, legacy)
  IN  /\ store' = r.profiles
      /\ mig' = [called |-> TRUE, current |-> current, err |-> r.err,
                 wrote |-> r.wrote, before |-> store]
      /\ UNCHANGED <<legacy, cfg, pc, arg, err>>

\* -------------------------------------------- get_webcam_configurations
\* attributes set in __init__
streamTimeout == 15
snapshotTimeout == 15

\* enumerate(profiles): (index, profile) tuples, indices from 0
enumerate(profiles) ==
  [i \in 1..Len(profiles) |-> [kind |-> "tuple", index |-> i - 1, value |-> profiles[i]]]

\* the Webcam object built at lines 91-124 from a profile dict
Webcam(profile) ==
  LET flipH == OrDefault(DictGet(profile, "flipH"), "False")
      flipV == OrDefault(DictGet(profile, "flipV"), "False")
      rotate90 == OrDefault(DictGet(profile, "rotate90"), "False")
      snapshot == DictGet(profile, "snapshot")
      stream == OrDefault(DictGet(profile, "URL"), "")
      streamRatio == OrDefault(DictGet(profile, "streamRatio"), "4:3")
      canSnapshot == snapshot # "" /\ snapshot # None
      name == OrDefault(DictGet(profile, "name"), "default")
  IN  [name |-> "multicam/" \o name,
       displayName |-> name,
       flipH |-> flipH,
       flipV |-> flipV,
       rotate90 |-> rotate90,
       snapshotDisplay |-> snapshot,
       canSnapshot |-> canSnapshot,
       compat |-> [stream |-> stream, streamTimeout |-> streamTimeout,
                   streamRatio |-> streamRatio, cacheBuster |-> TRUE,
                   streamWebrtcIceServers |-> <<>>, snapshot |-> snapshot,
                   snapshotTimeout |-> snapshotTimeout,
                   snapshotSslValidation |-> TRUE],
       extras |-> [stream |-> stream, streamTimeout |-> streamTimeout,
                   streamRatio |-> streamRatio, cacheBuster |-> TRUE]]

\* profile_to_webcam(item): item.get(...) needs a dict; a tuple has no
\* attribute 'get'
profile_to_webcam(item) ==
  IF item.kind = "dict"
    THEN [err |-> "none", webcam |-> Webcam(item.value)]
    ELSE [err |-> "AttributeError", webcam |-> None]

\* list(map(profile_to_webcam, enumerate(profiles)))
get_webcam_configurations(profiles) ==
  LET items == enumerate(profiles)
      results == [i \in 1..Len(items) |-> profile_to_webcam(items[i])]
  IN  IF \E i \in 1..Len(items) : results[i].err # "none"
        THEN [err |-> results[1].err, value |-> <<>>]
        ELSE [err |-> "none", value |-> [i \in 1..Len(items) |-> results[i].webcam]]

NoCfg == [called |-> FALSE, err |-> "none", value |-> <<>>, src |-> <<>>]

GetWebcamConfigurations ==
  LET r == get_webcam_configurations(store)
  IN  /\ cfg' = [called |-> TRUE, err |-> r.err, value |-> r.value, src |-> store]
      /\ UNCHANGED <<store, legacy, mig, pc, arg, err>>

\* ------------------------------------------------- take_webcam_snapshot
Callers == 1..NumCallers

SnapshotNames ==
  {"multicam/Cam1", "multicam/Cam2", "multicam/default", "multicam/Cam4",
   "multicam/nope"}

\* what line 129 iterates: the attribute self.get_webcam_configurations,
\* the bound method itself (it is not called)
get_webcam_configurations_attr == [kind |-> "method", items |-> <<>>]

\* iter(obj)
PyIter(obj) ==
  IF obj.kind = "list" THEN [err |-> "none", items |-> obj.items]
  ELSE [err |-> "TypeError", items |-> <<>>]

\* lines 129-137: where a call with this name goes, and the error it raises
snapshot_lookup(name) ==
  LET it == PyIter(get_webcam_configurations_attr)
      matches == SelectSeq(it.items, LAMBDA w : w.name = name)
  IN  IF it.err # "none" THEN [pc |-> "raised", err |-> it.err]
      ELSE IF matches = <<>> THEN [pc |-> "raised", err |-> "StopIteration"]
      ELSE IF "snapshot_url" \notin DOMAIN Head(matches)
        THEN [pc |-> "raised", err |-> "AttributeError"]
      ELSE IF Head(matches).snapshot_url \in {None, "http://", ""}
        THEN [pc |-> "raised", err |-> "WebcamNotAbleToTakeSnapshotException"]
      ELSE [pc |-> "line139", err |-> "none"]

\* a caller enters take_webcam_snapshot(name)
Call(c, name) ==
  /\ pc[c] = "idle"
  /\ pc' = [pc EXCEPT ![c] = "line129"]
  /\ arg' = [arg EXCEPT ![c] = name]
  /\ UNCHANGED <<store, legacy, mig, cfg, err>>

\* the caller runs lines 129-137
Lookup(c) ==
  /\ pc[c] = "line129"
  /\ pc' = [pc EXCEPT ![c] = snapshot_lookup(arg[c]).pc]
  /\ err' = [err EXCEPT ![c] = snapshot_lookup(arg[c]).err]
  /\ UNCHANGED <<store, legacy, mig, cfg, arg>>

\* ------------------------------------------------------- specification
TypeOK ==
  /\ legacy \in LegacySettings
  /\ Len(store) <= MaxProfiles
  /\ pc \in [Callers -> {"idle", "line129", "line139", "raised"}]
  /\ arg \in [Callers -> SnapshotNames \cup {None}]

Init ==
  /\ store \in ProfileLists
  /\ legacy \in LegacySettings
  /\ mig = NoMigration
  /\ cfg = NoCfg
  /\ pc = [c \in Callers |-> "idle"]
  /\ arg = [c \in Callers |-> None]
  /\ err = [c \in Callers |-> "none"]

Next ==
  \/ \E current \in Versions : on_settings_migrate(current)
  \/ GetWebcamConfigurations
  \/ \E c \in Callers, name \in SnapshotNames : Call(c, name)
  \/ \E c \in Callers : Lookup(c)

Spec == Init /\ [][Next]_vars

\* the settings side alone: migration and descriptor translation, which the
\* snapshot callers neither read nor write
NextSettings ==
  \/ \E current \in Versions : on_settings_migrate(current)
  \/ GetWebcamConfigurations

SpecSettings == Init /\ [][NextSettings]_vars

\* --------------------------------------------------------------- claims
\* the profile as both migration steps leave it
FullyMigrated(p, l) ==
  [p EXCEPT !.snapshot = l.snapshot, !.flipH = l.flipH, !.flipV = l.flipV,
            !.rotate90 = l.rotate90, !.streamRatio = l.streamRatio]

\* the name is the identifier of no stored profile
UnknownName(n) == \A i \in 1..Len(store) : Webcam(store[i]).name # n

\* the name is the identifier of a stored profile, and the first such
\* profile has a snapshot URL that is null, empty or the placeholder
PlaceholderName(n) ==
  /\ ~UnknownName(n)
  /\ LET i == CHOOSE k \in 1..Len(store) :
                /\ Webcam(store[k]).name = n
                /\ \A j \in 1..(k - 1) : Webcam(store[j]).name # n
     IN  Webcam(store[i]).compat.snapshot \in {None, "", "http://"}

\* caller c leaves lines 129-137 in this step
LeavesLookup(c) == pc[c] = "line129" /\ pc'[c] # "line129"

\* C2: take_webcam_snapshot with a name that matches no descriptor fails
\* with WebcamNotAbleToTakeSnapshotException and with no other error, and
\* does not go on to the HTTP call.
C2_UnknownNameUnavailable ==
  [][\A c \in Callers :
       (LeavesLookup(c) /\ UnknownName(arg[c])) =>
         /\ pc'[c] = "raised"
         /\ err'[c] = "WebcamNotAbleToTakeSnapshotException"]_vars

\* C3: take_webcam_snapshot for a profile whose snapshot URL is null, empty
\* or "http://" fails with WebcamNotAbleToTakeSnapshotException and neither
\* acquires the capture lock nor issues the HTTP GET.
C3_PlaceholderUnavailable ==
  [][\A c \in Callers :
       (LeavesLookup(c) /\ PlaceholderName(arg[c])) =>
         /\ pc'[c] = "raised"
         /\ err'[c] = "WebcamNotAbleToTakeSnapshotException"]_vars

\* C4: on_settings_migrate with current = 1 or current = None overwrites
\* snapshot, flipH, flipV, rotate90 and streamRatio of every profile with
\* the legacy values and persists exactly those profiles.
C4_MigrateFromOneOrNone ==
  (mig.called /\ mig.current \in {1, NoVersion}) =>
    /\ mig.err = "none"
    /\ mig.wrote
    /\ Len(store) = Len(mig.before)
    /\ \A i \in 1..Len(store) : store[i] = FullyMigrated(mig.before[i], legacy)

\* C5: on_settings_migrate with current >= 3 is a no-op: it raises nothing,
\* does not write multicam_profiles and leaves every profile as it was.
C5_MigrateAtTargetIsNoOp ==
  (mig.called /\ mig.current >= 3) =>
    /\ mig.err = "none"
    /\ ~mig.wrote
    /\ store = mig.before

\* C5 witness: a migration at version >= 3 has run on a non-empty list
\* that an earlier migration had already rewritten
C5_Witness ==
  /\ mig.called
  /\ mig.current >= 3
  /\ store # <<>>
  /\ \E i \in 1..Len(store) : store[i] \notin StoredProfiles

\* C6: get_webcam_configurations never fails and returns one descriptor per
\* profile, in order, with the defaults of the table; the identifier is
\* "multicam/" + name and canSnapshot holds iff snapshot is non-null and
\* non-empty.
C6_TranslatorTotal ==
  cfg.called =>
    /\ cfg.err = "none"
    /\ Len(cfg.value) = Len(cfg.src)
    /\ \A i \in 1..Len(cfg.src) :
         LET p == cfg.src[i]
             w == cfg.value[i]
         IN  /\ w.flipH = OrDefault(DictGet(p, "flipH"), "False")
             /\ w.flipV = OrDefault(DictGet(p, "flipV"), "False")
             /\ w.rotate90 = OrDefault(DictGet(p, "rotate90"), "False")
             /\ w.compat.stream = OrDefault(DictGet(p, "URL"), "")
             /\ w.compat.streamRatio = OrDefault(DictGet(p, "streamRatio"), "4:3")
             /\ w.displayName = OrDefault(DictGet(p, "name"), "default")
             /\ w.snapshotDisplay = OrDefault(DictGet(p, "snapshot"), None)
             /\ w.name = "multicam/" \o w.displayName
             /\ w.canSnapshot = (DictGet(p, "snapshot") \notin {None, ""})

\* C9: on_settings_migrate never ends in a raised error, whatever the
\* current version and the stored list.
C9_MigrateNeverRaises == mig.called => mig.err = "none"

\* C10: on_settings_migrate with current = 2 overwrites only streamRatio of
\* each profile; and for every current < 3 the migration keeps the number
\* and order of the profiles and each profile's name and URL.
C10_StepsOnlyBelowTheirVersion ==
  /\ (mig.called /\ mig.current = 2) =>
       /\ Len(store) = Len(mig.before)
       /\ \A i \in 1..Len(store) :
            store[i] = [mig.before[i] EXCEPT !.streamRatio = legacy.streamRatio]
  /\ (mig.called /\ mig.current < 3) =>
       /\ Len(store) = Len(mig.before)
       /\ \A i \in 1..Len(store) :
            /\ store[i].name = mig.before[i].name
            /\ store[i].URL = mig.before[i].URL

\* C10 witness: a migration from version 2 has rewritten streamRatio of a
\* profile whose snapshot differs from the legacy snapshot
C10_Witness ==
  /\ mig.called
  /\ mig.current = 2
  /\ mig.err = "none"
  /\ store # mig.before
  /\ \E i \in 1..Len(store) : store[i].snapshot # legacy.snapshot

\* every call of take_webcam_snapshot ends at line 129: no caller gets to
\* the capture lock of line 139
LockNeverReached == \A c \in Callers : pc[c] # "line139"
====
